---- MODULE Spec2Model ----
(***************************************************************************)
(* Model of optimization_tools/lift_calculator.py: the DroneCalculator     *)
(* physics functions, the evaluation done by update_calculations and the   *)
(* grid search of run_optimization.                                        *)
(*                                                                         *)
(* Python floats are modelled in fixed point.  Every quantity is an        *)
(* integer count of a fixed unit, and every multiplication or division     *)
(* that the code performs is performed here in the same order, its result  *)
(* truncated to the unit of the result:                                    *)
(*   lengths (inches)      0.1 in      diameter_m, pitch_m   1e-5 m        *)
(*   efficiencies          1 percent   advance_ratio         1e-4          *)
(*   voltage               0.1 V       thrust_coeff          1e-7          *)
(*   rpm                   0.1 rpm     disk_area             1e-8 m^2      *)
(*   weights, thrust_grams 1 g, 0.1 g  tip_speed             1 mm/s        *)
(*   thrust_newtons        1 mN        power                 0.01 W        *)
(*   capacity              1 mAh       current               1e-4 A        *)
(*   flight time           0.001 min   flight_time_hours     1e-6 h        *)
(*   twr, score            0.001       max_payload           0.05 g        *)
(* A Python exception (ZeroDivisionError) is the result [err |-> TRUE].    *)
(***************************************************************************)
EXTENDS Integers, Sequences, FiniteSets, TLC

(* ---------------------------------------------------------------------- *)
(* Arithmetic helpers                                                      *)
(* ---------------------------------------------------------------------- *)

Max(a, b) == IF a >= b THEN a ELSE b

RECURSIVE MulDivQR(_, _, _)
\* <<q, r>> with a*b = q*c + r and 0 <= r < c, computed over the base-4 digits
\* of b so that no intermediate product leaves the 32-bit range
\* (a, b >= 0, 0 < c < 2^29).
MulDivQR(a, b, c) ==
    IF b = 0 THEN <<0, 0>>
    ELSE LET h  == MulDivQR(a, b \div 4, c)
             lo == b % 4
             t  == ((4 * h[2]) % c) + ((a % c) * lo)
         IN  <<(4 * h[1]) + ((4 * h[2]) \div c) + ((a \div c) * lo) + (t \div c), t % c>>

\* a*b/c truncated (a, b >= 0, c > 0): the product itself when it fits
MulDiv(a, b, c) ==
    IF a = 0 \/ b = 0 THEN 0
    ELSE IF a <= 2147483647 \div b THEN (a * b) \div c
    ELSE MulDivQR(a, b, c)[1]

RECURSIVE ISqrtB(_, _, _)
\* largest s in lo..hi with s*s <= n
ISqrtB(n, lo, hi) ==
    IF lo >= hi THEN lo
    ELSE LET mid == (lo + hi + 1) \div 2
         IN  IF mid * mid <= n THEN ISqrtB(n, mid, hi) ELSE ISqrtB(n, lo, mid - 1)

\* square root truncated
ISqrt(n) == ISqrtB(n, 0, 46340)

Ok(v) == [err |-> FALSE, val |-> v]
Raise == [err |-> TRUE, val |-> 0]

(* ---------------------------------------------------------------------- *)
(* class DroneCalculator                                                   *)
(* ---------------------------------------------------------------------- *)

\* self.air_density = 1.225, in 0.001 kg/m^3
air_density == 1225

\* math.pi as the fraction PiNum / PiDen
PiNum == 355
PiDen == 113

\* N to grams-force factor 101.97, in 0.01
GramsPerNewton == 10197

\* default arguments efficiency=0.8 and motor_efficiency=0.85, in percent
DefaultPropEfficiency == 80
DefaultMotorEfficiency == 85

\* calculate_propeller_thrust(diameter, pitch, rpm, efficiency):
\* thrust in 0.1 g, or a ZeroDivisionError when rpm > 0 and diameter = 0
calculate_propeller_thrust(diameter, pitch, rpm, efficiency) ==
    LET diameter_m == diameter * 254
        pitch_m    == pitch * 254
        \* (rpm*pitch_m/60) / (rpm*diameter_m/60): the factor rpm/60 cancels,
        \* the division is by rpm*diameter_m/60, which is 0 iff diameter_m is
        zerodiv    == rpm > 0 /\ diameter_m = 0
        advance_ratio == IF rpm > 0 THEN MulDiv(pitch_m, 10000, diameter_m) ELSE 0
        radius     == diameter_m \div 2
        disk_area  == MulDiv(radius * radius, PiNum, PiDen * 100)
        tip_speed  == MulDiv(MulDiv(rpm, PiNum, PiDen * 6), diameter_m, 10000)
        thrust_coeff == Max(0, (10000 - advance_ratio) * efficiency)
        thrust_newtons ==
            MulDiv(MulDiv(MulDiv(thrust_coeff, air_density, 1000), disk_area, 10000000),
                   MulDiv(tip_speed, tip_speed, 1000), 100000000)
        thrust_grams == MulDiv(thrust_newtons, GramsPerNewton, 10000)
    IN  IF zerodiv THEN Raise ELSE Ok(Max(0, thrust_grams))

\* calculate_motor_rpm(voltage, kv, load_current): rpm in 0.1 rpm;
\* load_current in A, back_emf_loss = load_current * 0.1 V
calculate_motor_rpm(voltage, kv, load_current) ==
    LET back_emf_loss     == load_current
        effective_voltage == Max(0, voltage - back_emf_loss)
    IN  Ok(kv * effective_voltage)

\* calculate_power_consumption(thrust_grams, motor_efficiency): power in 0.01 W,
\* or a ZeroDivisionError when motor_efficiency = 0
calculate_power_consumption(thrust_grams, motor_efficiency) ==
    LET thrust_newtons == MulDiv(thrust_grams, 10000, GramsPerNewton)
        pow15          == MulDiv(thrust_newtons, ISqrt(thrust_newtons * 10), 1000)
    IN  IF motor_efficiency = 0 THEN Raise
        ELSE Ok(MulDiv(pow15, 10, motor_efficiency))

\* variant: the guard is total_power_watts < 0, so a zero power reaches the
\* divisions
calculate_flight_time_strict_guard(battery_capacity_mah, total_power_watts, voltage) ==
    IF total_power_watts < 0 THEN Ok(0)
    ELSE IF voltage = 0 \/ total_power_watts = 0 THEN Raise
    ELSE LET current_amps      == MulDiv(total_power_watts, 1000, voltage)
             flight_time_hours == MulDiv(battery_capacity_mah, 10000000, current_amps)
         IN  Ok(MulDiv(flight_time_hours, 60, 1000))

\* calculate_flight_time(battery_capacity_mah, total_power_watts, voltage):
\* minutes in 0.001 min, or a ZeroDivisionError when the power is positive and
\* the voltage is 0 (a positive power over a positive voltage of at most 100 V
\* is a positive current_amps in this unit, as it is in floating point)
calculate_flight_time(battery_capacity_mah, total_power_watts, voltage) ==
    IF total_power_watts <= 0 THEN Ok(0)
    ELSE IF voltage = 0 THEN Raise
    ELSE LET current_amps      == MulDiv(total_power_watts, 1000, voltage)
             flight_time_hours == MulDiv(battery_capacity_mah, 10000000, current_amps)
         IN  Ok(MulDiv(flight_time_hours, 60, 1000))

(* ---------------------------------------------------------------------- *)
(* State                                                                   *)
(* ---------------------------------------------------------------------- *)

VARIABLES
    cfg,              \* the input widgets of the custom mode tab
    optimize_params,  \* the checked boxes of the optimize tab
    max_weight,       \* constraint widget, g
    min_flight_time,  \* constraint widget, 0.1 min
    pc,               \* "idle", "loop", "report", "done"
    axes,             \* the four candidate lists of run_optimization
    it,               \* indices of the four nested loops
    best_config,      \* <<>> for None, else <<the dict>>
    best_score,
    outcome,          \* what optimize_results shows
    visited,          \* candidates evaluated so far, in order
    perf,             \* what update_calculations displayed
    call,             \* a direct call of a DroneCalculator method
    ret               \* its result

vars == <<cfg, optimize_params, max_weight, min_flight_time, pc, axes, it,
          best_config, best_score, outcome, visited, perf, call, ret>>

(* ---------------------------------------------------------------------- *)
(* DroneCalculatorGUI.update_calculations                                  *)
(* ---------------------------------------------------------------------- *)

\* TWR colour code of the result label and the first line of update_analysis
TwrClass(twr) ==
    IF twr < 1000 THEN "infeasible"
    ELSE IF twr < 1500 THEN "marginal"
    ELSE "adequate"

\* variant: a flight time of exactly 15 minutes still counts as moderate
FlightTimeClassInclusive(flight_time) ==
    IF flight_time < 5000 THEN "critical"
    ELSE IF flight_time <= 15000 THEN "moderate"
    ELSE "good"

\* second block of update_analysis
FlightTimeClass(flight_time) ==
    IF flight_time < 5000 THEN "critical"
    ELSE IF flight_time < 15000 THEN "moderate"
    ELSE "good"

\* third block of update_analysis
Overheating(power) == power > 50000

\* variant: the ESCs are not weighed
TotalWeightNoEsc(w) ==
    w.motor_weight * w.num_motors
    + w.battery_weight
    + w.frame_weight
    + w.flight_controller_weight
    + w.camera_weight
    + w.additional_payload
    + w.wiring_weight

\* total_weight of update_calculations
TotalWeight(w) ==
    w.motor_weight * w.num_motors
    + w.battery_weight
    + w.esc_weight * w.num_motors
    + w.frame_weight
    + w.flight_controller_weight
    + w.camera_weight
    + w.additional_payload
    + w.wiring_weight

\* variant: the payload already entered is not taken out of the weight
MaxPayloadOfLoadedVehicle(total_thrust, total_weight, additional_payload) ==
    Max(0, total_thrust - 20 * total_weight)

\* max(0, total_thrust / 2.0 - (total_weight - additional_payload)), in 0.05 g
MaxPayload(total_thrust, total_weight, additional_payload) ==
    Max(0, total_thrust - 20 * (total_weight - additional_payload))

\* the try block of update_calculations up to max_payload, for widget values w
evaluate(w) ==
    LET rpm              == calculate_motor_rpm(w.battery_voltage, w.motor_kv, 0)
        thrust_per_motor == calculate_propeller_thrust(w.prop_diameter, w.prop_pitch,
                                                       rpm.val, w.prop_efficiency)
        total_thrust     == thrust_per_motor.val * w.num_motors
        total_weight     == TotalWeight(w)
        twr              == IF total_weight > 0
                            THEN MulDiv(total_thrust, 100, total_weight) ELSE 0
        power_per_motor  == calculate_power_consumption(thrust_per_motor.val,
                                                        w.motor_efficiency)
        total_power      == power_per_motor.val * w.num_motors
        flight_time      == calculate_flight_time(w.battery_capacity, total_power,
                                                  w.battery_voltage)
        max_payload      == MaxPayload(total_thrust, total_weight, w.additional_payload)
        raised           == thrust_per_motor.err \/ power_per_motor.err \/ flight_time.err
    IN  IF raised
        THEN [err |-> TRUE, rpm |-> 0, total_weight |-> 0, total_thrust |-> 0, twr |-> 0,
              total_power |-> 0, flight_time |-> 0, max_payload |-> 0]
        ELSE [err |-> FALSE, rpm |-> rpm.val, total_weight |-> total_weight,
              total_thrust |-> total_thrust, twr |-> twr, total_power |-> total_power,
              flight_time |-> flight_time.val, max_payload |-> max_payload]

\* what the results tab shows before the first successful calculation
NoPerf == [shown |-> FALSE, err |-> FALSE, rpm |-> 0, total_weight |-> 0,
           total_thrust |-> 0, twr |-> 0, total_power |-> 0, flight_time |-> 0,
           max_payload |-> 0, twr_class |-> "none", flight_time_class |-> "none",
           overheating |-> FALSE]

\* update_calculations: the result labels, the TWR colour and update_analysis;
\* an exception is caught and printed, and the labels keep their text.
\* update_analysis divides power by weight: a zero total weight raises there,
\* after the labels were set.  The plots are presentation and are left out.
Displayed(w) ==
    LET r == evaluate(w)
    IN  IF r.err THEN [NoPerf EXCEPT !.err = TRUE]
        ELSE [shown |-> TRUE, err |-> r.total_weight = 0, rpm |-> r.rpm,
              total_weight |-> r.total_weight, total_thrust |-> r.total_thrust,
              twr |-> r.twr, total_power |-> r.total_power,
              flight_time |-> r.flight_time, max_payload |-> r.max_payload,
              twr_class |-> TwrClass(r.twr),
              flight_time_class |-> IF r.total_weight = 0 THEN "none"
                                    ELSE FlightTimeClass(r.flight_time),
              overheating |-> r.total_weight # 0 /\ Overheating(r.total_power)]

(* ---------------------------------------------------------------------- *)
(* DroneCalculatorGUI.run_optimization                                     *)
(* ---------------------------------------------------------------------- *)

ParamNames == {"Propeller Diameter", "Motor KV", "Battery Capacity", "Number of Motors"}

\* the test ranges, a single template value for an axis that is not optimized
prop_diameters(w, params) ==
    IF "Propeller Diameter" \in params THEN <<80, 100, 120, 140>> ELSE <<w.prop_diameter>>
motor_kvs(w, params) ==
    IF "Motor KV" \in params THEN <<800, 1000, 1200, 1500>> ELSE <<w.motor_kv>>
battery_caps(w, params) ==
    IF "Battery Capacity" \in params THEN <<3000, 5000, 8000, 10000>>
    ELSE <<w.battery_capacity>>
motor_counts(w, params) ==
    IF "Number of Motors" \in params THEN <<3, 4, 6, 8>> ELSE <<w.num_motors>>

TestRanges(w, params) ==
    <<prop_diameters(w, params), motor_kvs(w, params),
      battery_caps(w, params), motor_counts(w, params)>>

\* score = twr*30 + flight_time*2 - total_weight*0.01 - power*0.1
Score(twr, flight_time, total_weight, power) ==
    twr * 30 + flight_time * 2 - total_weight * 10 - power

\* total_weight of run_optimization
CandidateWeight(w, motor_count) ==
    w.motor_weight * motor_count
    + w.battery_weight
    + w.frame_weight
    + w.flight_controller_weight
    + w.camera_weight
    + w.additional_payload
    + w.wiring_weight

\* variant: the flight time is computed from the capacity widget
CandidateMetricsOfWidgetCapacity(w, prop_d, motor_kv, battery_cap, motor_count) ==
    LET rpm              == calculate_motor_rpm(w.battery_voltage, motor_kv, 0)
        thrust_per_motor == calculate_propeller_thrust(prop_d, w.prop_pitch, rpm.val,
                                                       DefaultPropEfficiency)
        total_thrust     == thrust_per_motor.val * motor_count
        total_weight     == CandidateWeight(w, motor_count)
        twr              == IF total_weight > 0
                            THEN MulDiv(total_thrust, 100, total_weight) ELSE 0
        power_per_motor  == calculate_power_consumption(thrust_per_motor.val,
                                                        DefaultMotorEfficiency)
        power            == power_per_motor.val * motor_count
        flight_time      == calculate_flight_time(w.battery_capacity, power,
                                                  w.battery_voltage)
        raised           == thrust_per_motor.err \/ power_per_motor.err \/ flight_time.err
    IN  IF raised
        THEN [err |-> TRUE, twr |-> 0, flight_time |-> 0, total_weight |-> 0,
              power |-> 0, score |-> 0]
        ELSE [err |-> FALSE, twr |-> twr, flight_time |-> flight_time.val,
              total_weight |-> total_weight, power |-> power,
              score |-> Score(twr, flight_time.val, total_weight, power)]

\* the body of the innermost loop up to the constraint check
CandidateMetrics(w, prop_d, motor_kv, battery_cap, motor_count) ==
    LET rpm              == calculate_motor_rpm(w.battery_voltage, motor_kv, 0)
        thrust_per_motor == calculate_propeller_thrust(prop_d, w.prop_pitch, rpm.val,
                                                       DefaultPropEfficiency)
        total_thrust     == thrust_per_motor.val * motor_count
        total_weight     == CandidateWeight(w, motor_count)
        twr              == IF total_weight > 0
                            THEN MulDiv(total_thrust, 100, total_weight) ELSE 0
        power_per_motor  == calculate_power_consumption(thrust_per_motor.val,
                                                        DefaultMotorEfficiency)
        power            == power_per_motor.val * motor_count
        flight_time      == calculate_flight_time(battery_cap, power, w.battery_voltage)
        raised           == thrust_per_motor.err \/ power_per_motor.err \/ flight_time.err
    IN  IF raised
        THEN [err |-> TRUE, twr |-> 0, flight_time |-> 0, total_weight |-> 0,
              power |-> 0, score |-> 0]
        ELSE [err |-> FALSE, twr |-> twr, flight_time |-> flight_time.val,
              total_weight |-> total_weight, power |-> power,
              score |-> Score(twr, flight_time.val, total_weight, power)]

\* variant: the flight time check is missing
PassesConstraintsWeightOnly(m, maxw, minft) ==
    ~(m.total_weight > maxw)

\* the two constraint checks: a candidate that fails one is skipped
PassesConstraints(m, maxw, minft) ==
    /\ ~(m.total_weight > maxw)
    /\ ~(m.flight_time < minft * 100)

\* variant: only the first scoring candidate is ever retained
ImprovesOnlyOnce(score, best, twr) == best = 0 /\ score > best /\ twr >= 1000

\* variant: an equal score replaces the retained configuration
ImprovesNonStrict(score, best, twr) == score >= best /\ twr >= 1000

\* if score > best_score and twr >= 1.0
Improves(score, best, twr) == score > best /\ twr >= 1000

\* the dict stored in best_config
ConfigOf(c, m) ==
    [prop_diameter |-> c[1], motor_kv |-> c[2], battery_capacity |-> c[3],
     motor_count |-> c[4], twr |-> m.twr, flight_time |-> m.flight_time,
     total_weight |-> m.total_weight, power |-> m.power, score |-> m.score]

\* the candidate the four loop indices point at
CandidateAt(ax, i) == <<ax[1][i[1]], ax[2][i[2]], ax[3][i[3]], ax[4][i[4]]>>

\* the indices of the next iteration of the nested for loops, innermost first
NextIt(ax, i) ==
    IF i[4] < Len(ax[4]) THEN <<i[1], i[2], i[3], i[4] + 1>>
    ELSE IF i[3] < Len(ax[3]) THEN <<i[1], i[2], i[3] + 1, 1>>
    ELSE IF i[2] < Len(ax[2]) THEN <<i[1], i[2] + 1, 1, 1>>
    ELSE <<i[1] + 1, 1, 1, 1>>

\* variant: the search stops with the last diameter's first candidate
LastItOuterOnly(ax, i) == i[1] = Len(ax[1])

\* the last iteration of the four loops
LastIt(ax, i) ==
    i[1] = Len(ax[1]) /\ i[2] = Len(ax[2]) /\ i[3] = Len(ax[3]) /\ i[4] = Len(ax[4])

\* variant: the search runs on the template alone when no box is checked
NoParamsNeverReturns(params) == FALSE

\* the early return of run_optimization
NoParamsSelected(params) == params = {}

\* the button click: up to the first iteration of the loops
StartOptimization ==
    /\ pc = "idle"
    /\ IF NoParamsSelected(optimize_params)
       THEN /\ outcome' = "NoParams"
            /\ pc' = "done"
            /\ UNCHANGED <<axes, it, best_config, best_score>>
       ELSE /\ best_config' = <<>>
            /\ best_score' = 0
            /\ axes' = TestRanges(cfg, optimize_params)
            /\ it' = <<1, 1, 1, 1>>
            /\ pc' = "loop"
            /\ UNCHANGED outcome
    /\ UNCHANGED <<cfg, optimize_params, max_weight, min_flight_time, visited, perf, call, ret>>

\* one iteration of the innermost loop
VisitCandidate ==
    /\ pc = "loop"
    /\ LET c == CandidateAt(axes, it)
           m == CandidateMetrics(cfg, c[1], c[2], c[3], c[4])
       IN  /\ visited' = Append(visited, c)
           /\ IF m.err
              THEN /\ outcome' = "Error"
                   /\ pc' = "done"
                   /\ UNCHANGED <<it, best_config, best_score>>
              ELSE /\ IF PassesConstraints(m, max_weight, min_flight_time)
                         /\ Improves(m.score, best_score, m.twr)
                      THEN /\ best_score' = m.score
                           /\ best_config' = <<ConfigOf(c, m)>>
                      ELSE UNCHANGED <<best_config, best_score>>
                   /\ IF LastIt(axes, it)
                      THEN pc' = "report" /\ UNCHANGED it
                      ELSE pc' = "loop" /\ it' = NextIt(axes, it)
                   /\ UNCHANGED outcome
    /\ UNCHANGED <<cfg, optimize_params, max_weight, min_flight_time, axes, perf, call, ret>>

\* if best_config: ... else: ...; setText
ReportResults ==
    /\ pc = "report"
    /\ outcome' = IF best_config # <<>> THEN "Found" ELSE "Infeasible"
    /\ pc' = "done"
    /\ UNCHANGED <<cfg, optimize_params, max_weight, min_flight_time, axes, it,
                   best_config, best_score, visited, perf, call, ret>>

\* a click on "Calculate Performance", or the call that ends init_ui
update_calculations ==
    /\ pc = "idle"
    /\ perf' = Displayed(cfg)
    /\ pc' = "done"
    /\ UNCHANGED <<cfg, optimize_params, max_weight, min_flight_time, axes, it,
                   best_config, best_score, outcome, visited, call, ret>>

\* update_analysis(twr, flight_time, power, weight) called with the values in
\* call: the three blocks of messages; power / weight raises for weight 0
\* before the text is set
update_analysis ==
    /\ pc = "idle" /\ call.fn = "update_analysis"
    /\ perf' = IF call.d = 0 THEN [NoPerf EXCEPT !.err = TRUE]
               ELSE [NoPerf EXCEPT !.shown = TRUE, !.twr = call.a,
                                   !.flight_time = call.b, !.total_power = call.c,
                                   !.total_weight = call.d,
                                   !.twr_class = TwrClass(call.a),
                                   !.flight_time_class = FlightTimeClass(call.b),
                                   !.overheating = Overheating(call.c)]
    /\ pc' = "done"
    /\ UNCHANGED <<cfg, optimize_params, max_weight, min_flight_time, axes, it,
                   best_config, best_score, outcome, visited, call, ret>>

(* ---------------------------------------------------------------------- *)
(* Direct calls of the four DroneCalculator methods                        *)
(* ---------------------------------------------------------------------- *)

NoRet == [returned |-> FALSE, err |-> FALSE, val |-> 0]
Returned(r) == [returned |-> TRUE, err |-> r.err, val |-> r.val]

CallPropellerThrust ==
    /\ pc = "idle" /\ call.fn = "calculate_propeller_thrust"
    /\ ret' = Returned(calculate_propeller_thrust(call.a, call.b, call.c, call.d))
    /\ pc' = "done"
    /\ UNCHANGED <<cfg, optimize_params, max_weight, min_flight_time, axes, it,
                   best_config, best_score, outcome, visited, perf, call>>

CallMotorRpm ==
    /\ pc = "idle" /\ call.fn = "calculate_motor_rpm"
    /\ ret' = Returned(calculate_motor_rpm(call.a, call.b, call.c))
    /\ pc' = "done"
    /\ UNCHANGED <<cfg, optimize_params, max_weight, min_flight_time, axes, it,
                   best_config, best_score, outcome, visited, perf, call>>

CallPowerConsumption ==
    /\ pc = "idle" /\ call.fn = "calculate_power_consumption"
    /\ ret' = Returned(calculate_power_consumption(call.a, call.b))
    /\ pc' = "done"
    /\ UNCHANGED <<cfg, optimize_params, max_weight, min_flight_time, axes, it,
                   best_config, best_score, outcome, visited, perf, call>>

CallFlightTime ==
    /\ pc = "idle" /\ call.fn = "calculate_flight_time"
    /\ ret' = Returned(calculate_flight_time(call.a, call.b, call.c))
    /\ pc' = "done"
    /\ UNCHANGED <<cfg, optimize_params, max_weight, min_flight_time, axes, it,
                   best_config, best_score, outcome, visited, perf, call>>

(* ---------------------------------------------------------------------- *)
(* Inputs                                                                  *)
(* ---------------------------------------------------------------------- *)

\* the widget defaults of create_custom_mode_tab
DefaultConfig ==
    [prop_diameter |-> 100, prop_pitch |-> 45, prop_efficiency |-> 80,
     motor_kv |-> 1000, motor_efficiency |-> 85, motor_weight |-> 50, num_motors |-> 4,
     battery_voltage |-> 111, battery_capacity |-> 5000, battery_weight |-> 300,
     esc_weight |-> 25, frame_weight |-> 200, flight_controller_weight |-> 30,
     camera_weight |-> 100, additional_payload |-> 0, wiring_weight |-> 50]

\* number of additional payload steps of 1260 g the templates range over
PayloadSteps == 3

\* largest load current, in A, of the direct calls of calculate_motor_rpm
MaxLoadCurrent == 2

Payloads == {k * 1260 : k \in 0..PayloadSteps}

\* templates within the widget ranges: the defaults, a 6S pack on a flat
\* propeller with better components, and a heavy airframe on 48 V
BaseTemplates ==
    {DefaultConfig,
     [DefaultConfig EXCEPT !.battery_voltage = 222, !.prop_pitch = 10,
                           !.prop_efficiency = 90, !.motor_efficiency = 90],
     [DefaultConfig EXCEPT !.battery_voltage = 480, !.battery_weight = 2000,
                           !.frame_weight = 1000, !.camera_weight = 1000]}

\* the defaults with a 10 in pitch: propellers of 8 and 10 in then have an
\* advance ratio of 1 or more and produce no thrust
SteepPitchTemplate == [DefaultConfig EXCEPT !.prop_pitch = 100]

Templates ==
    {[b EXCEPT !.additional_payload = p] : b \in BaseTemplates, p \in Payloads}
        \cup {SteepPitchTemplate}

MaxWeights == {2000, 10000}
MinFlightTimes == {10, 73, 100}

NoCall == [fn |-> "none", a |-> 0, b |-> 0, c |-> 0, d |-> 0]

\* configurations handed to the evaluation, zero motors and zero voltage included
EvalConfigs ==
    {[DefaultConfig EXCEPT !.num_motors = n, !.battery_voltage = v, !.prop_diameter = d,
                           !.prop_pitch = p, !.additional_payload = a] :
        n \in {0, 1, 4, 8}, v \in {0, 111, 222}, d \in {80, 100}, p \in {45, 100},
        a \in Payloads}

\* arguments of the direct calls, zero included
ThrustCalls ==
    {[fn |-> "calculate_propeller_thrust", a |-> d, b |-> p, c |-> r, d |-> e] :
        d \in {0, 80, 100}, p \in {0, 45, 100, 120}, r \in {0, 55500, 111000},
        e \in {80, 95}}
RpmCalls ==
    {[fn |-> "calculate_motor_rpm", a |-> v, b |-> k, c |-> l, d |-> 0] :
        v \in {0, 1, 111, 480}, k \in {0, 1000, 1500}, l \in 0..MaxLoadCurrent}
PowerCalls ==
    {[fn |-> "calculate_power_consumption", a |-> t, b |-> e, c |-> 0, d |-> 0] :
        t \in {0, 1, 1000, 60680, 500000}, e \in {70, 85, 95}}
FlightTimeCalls ==
    {[fn |-> "calculate_flight_time", a |-> cap, b |-> p, c |-> v, d |-> 0] :
        cap \in {0, 3000, 5000, 10000}, p \in {-100, 0, 100, 21592, 1000000},
        v \in {0, 37, 111, 480}}

\* results handed to update_analysis, on and around every threshold; the
\* weights are total weights of the default airframe with 1 and 4 motors
AnalysisCalls ==
    {[fn |-> "update_analysis", a |-> t, b |-> f, c |-> p, d |-> w] :
        t \in {0, 999, 1000, 1001, 1499, 1500, 1501, 24771},
        f \in {0, 4999, 5000, 5001, 14999, 15000, 15001, 83001},
        p \in {0, 49999, 50000, 50001, 172752},
        w \in {755, 980}}

(* ---------------------------------------------------------------------- *)
(* Specifications                                                          *)
(* ---------------------------------------------------------------------- *)

InitCommon ==
    /\ pc = "idle"
    /\ axes = <<>>
    /\ it = <<1, 1, 1, 1>>
    /\ best_config = <<>>
    /\ best_score = 0
    /\ outcome = "none"
    /\ visited = <<>>
    /\ perf = NoPerf
    /\ ret = NoRet

\* the optimize tab: a template, a choice of check boxes and the constraints
Init ==
    /\ InitCommon
    /\ cfg \in Templates
    /\ optimize_params \in SUBSET ParamNames
    /\ max_weight \in MaxWeights
    /\ min_flight_time \in MinFlightTimes
    /\ call = NoCall

Next == StartOptimization \/ VisitCandidate \/ ReportResults

Spec == Init /\ [][Next]_vars

\* the evaluation of one configuration
InitEval ==
    /\ InitCommon
    /\ cfg \in EvalConfigs
    /\ optimize_params = {}
    /\ max_weight = 2000
    /\ min_flight_time = 100
    /\ call = NoCall

NextEval == update_calculations

SpecEval == InitEval /\ [][NextEval]_vars

\* one direct call of a DroneCalculator method
InitPhys ==
    /\ InitCommon
    /\ cfg = DefaultConfig
    /\ optimize_params = {}
    /\ max_weight = 2000
    /\ min_flight_time = 100
    /\ call \in ThrustCalls \cup RpmCalls \cup PowerCalls \cup FlightTimeCalls

NextPhys == CallPropellerThrust \/ CallMotorRpm \/ CallPowerConsumption \/ CallFlightTime

SpecPhys == InitPhys /\ [][NextPhys]_vars

\* the analysis of one result
InitAnalysis ==
    /\ InitCommon
    /\ cfg = DefaultConfig
    /\ optimize_params = {}
    /\ max_weight = 2000
    /\ min_flight_time = 100
    /\ call \in AnalysisCalls

NextAnalysis == update_analysis

SpecAnalysis == InitAnalysis /\ [][NextAnalysis]_vars

(* ---------------------------------------------------------------------- *)
(* Properties of the grid search                                           *)
(* ---------------------------------------------------------------------- *)

Range(sq) == {sq[i] : i \in DOMAIN sq}

\* the Cartesian product of the four axes for the current widgets
Grid ==
    LET ax == TestRanges(cfg, optimize_params)
    IN  {<<d, k, c, n>> : d \in Range(ax[1]), k \in Range(ax[2]),
                          c \in Range(ax[3]), n \in Range(ax[4])}

MetricsOf(c) == CandidateMetrics(cfg, c[1], c[2], c[3], c[4])

\* the three admission conditions
Admissible(m) ==
    /\ ~m.err
    /\ m.total_weight <= max_weight
    /\ m.flight_time >= min_flight_time * 100
    /\ m.twr >= 1000

TupleOf(b) == <<b.prop_diameter, b.motor_kv, b.battery_capacity, b.motor_count>>

\* the k-th tuple of the nested loops: diameter outermost, motor count innermost
NthCandidate(ax, k) ==
    LET n2 == Len(ax[2])
        n3 == Len(ax[3])
        n4 == Len(ax[4])
        i4 == (k - 1) % n4
        i3 == ((k - 1) \div n4) % n3
        i2 == ((k - 1) \div (n4 * n3)) % n2
        i1 == (k - 1) \div (n4 * n3 * n2)
    IN  <<ax[1][i1 + 1], ax[2][i2 + 1], ax[3][i3 + 1], ax[4][i4 + 1]>>

C2_AdmissibleImpliesFound ==
    (pc = "done" /\ optimize_params # {} /\ \E c \in Grid : Admissible(MetricsOf(c)))
        => outcome = "Found"

\* C3: the score of a Found outcome is twr*30 + flight_time*2 -
\* total_weight*0.01 - power*0.1 of its own metrics and is at least the score
\* of every candidate of the grid that passes both constraints with twr >= 1.0.
C3_FoundIsArgMax ==
    (pc = "done" /\ outcome = "Found") =>
        LET b == best_config[1]
        IN  /\ b.score = b.twr * 30 + b.flight_time * 2 - b.total_weight * 10 - b.power
            /\ b.score = best_score
            /\ \A c \in Grid : Admissible(MetricsOf(c)) => b.score >= MetricsOf(c).score

\* a Found outcome that replaced an earlier admissible candidate of lower score
C3_Witness ==
    /\ pc = "done" /\ outcome = "Found"
    /\ \E j, k \in 1..Len(visited) :
          /\ k < j
          /\ visited[j] = TupleOf(best_config[1])
          /\ Admissible(MetricsOf(visited[k]))
          /\ MetricsOf(visited[k]).score > 0
          /\ MetricsOf(visited[k]).score < best_score

\* the candidates are visited in the nested order of the four loops
VisitedInLoopOrder ==
    axes # <<>> => \A k \in 1..Len(visited) : visited[k] = NthCandidate(axes, k)

\* the Found configuration is the first visited of those sharing its score
FirstOfEqualScoreWins ==
    (pc = "done" /\ outcome = "Found") =>
        \E j \in 1..Len(visited) :
            /\ visited[j] = TupleOf(best_config[1])
            /\ \A k \in 1..Len(visited) :
                  (Admissible(MetricsOf(visited[k]))
                   /\ MetricsOf(visited[k]).score = best_config[1].score) => j <= k

\* C4: candidates are visited in the nested order diameter, kv, capacity, motor
\* count, each axis in its listed order; of several admissible candidates that
\* share the maximum score the first visited is the Found configuration, and
\* the retained configuration is only ever replaced by a strictly higher score.
C4_TiesKeepFirstVisited ==
    /\ [](VisitedInLoopOrder /\ FirstOfEqualScoreWins)
    /\ [][(best_config # <<>> /\ best_config' # best_config)
              => best_score' > best_score]_vars

\* a Found outcome with a later admissible candidate of the same score
C4_Witness ==
    /\ pc = "done" /\ outcome = "Found"
    /\ \E j, k \in 1..Len(visited) :
          /\ j < k
          /\ visited[j] = TupleOf(best_config[1])
          /\ Admissible(MetricsOf(visited[k]))
          /\ MetricsOf(visited[k]).score = best_score

\* the template itself passes the constraints and can fly
TemplateSatisfiesConstraints ==
    LET e == evaluate(cfg)
    IN  /\ ~e.err
        /\ e.total_weight <= max_weight
        /\ e.flight_time >= min_flight_time * 100
        /\ e.twr >= 1000

\* C5 as stated: with no box checked and a template that satisfies the
\* constraints the search evaluates the template alone and ends Found with the
\* score of its evaluation.
C5_NoFlagsYieldsTemplateScore ==
    (pc = "done" /\ optimize_params = {} /\ TemplateSatisfiesConstraints) =>
        /\ outcome = "Found"
        /\ Len(visited) = 1
        /\ LET e == evaluate(cfg)
           IN  best_config[1].score
                   = Score(e.twr, e.flight_time, e.total_weight, e.total_power)

\* C5 as amended: with no box checked run_optimization returns before the
\* search; no candidate is evaluated, nothing is retained and the outcome is
\* the "no parameters selected" message, which is neither Found nor
\* Infeasible; that message is shown in no other case.
C5_NoFlagsNoSearch ==
    pc = "done" =>
        /\ optimize_params = {} =>
              (outcome = "NoParams" /\ visited = <<>> /\ best_config = <<>>)
        /\ outcome = "NoParams" => optimize_params = {}

\* a finished click with no box checked on a template that satisfies the constraints
C5_Witness ==
    pc = "done" /\ optimize_params = {} /\ TemplateSatisfiesConstraints

\* the configuration a candidate tuple stands for
ConfigurationOf(c) ==
    [cfg EXCEPT !.prop_diameter = c[1], !.motor_kv = c[2],
                !.battery_capacity = c[3], !.num_motors = c[4]]

\* C6: the total weight, twr, total power and flight time the grid search
\* computes for a candidate are those update_calculations computes for the
\* same configuration (ESC weight and configured efficiencies included).
C6_SearchUsesEvaluatorMetrics ==
    Len(visited) > 0 =>
        LET c == visited[Len(visited)]
            m == MetricsOf(c)
            e == evaluate(ConfigurationOf(c))
        IN  /\ m.err = e.err
            /\ m.total_weight = e.total_weight
            /\ m.twr = e.twr
            /\ m.power = e.total_power
            /\ m.flight_time = e.flight_time

\* all four boxes checked on the default widgets and default constraints
DefaultSearch ==
    /\ cfg = DefaultConfig
    /\ optimize_params = ParamNames
    /\ max_weight = 2000
    /\ min_flight_time = 100

\* C12: with all four axes optimized over diameter {8,10,12,14}, kv
\* {800,1000,1200,1500}, capacity {3000,5000,8000,10000} and motor count
\* {3,4,6,8}, the default template, max weight 2000 g and min flight time
\* 10 min, the grid search ends Found with total_weight <= 2000 and
\* flight_time >= 10.
C12_DefaultSearchIsFound ==
    (pc = "done" /\ DefaultSearch) =>
        /\ axes = <<(<<80, 100, 120, 140>>), (<<800, 1000, 1200, 1500>>),
                    (<<3000, 5000, 8000, 10000>>), (<<3, 4, 6, 8>>)>>
        /\ outcome = "Found"
        /\ best_config # <<>>
        /\ best_config[1].total_weight <= 2000
        /\ best_config[1].flight_time >= 10000

\* the default search has visited all 256 candidates, some of which fly for
\* less than 10 minutes, and has reported
C12_Witness ==
    /\ pc = "done" /\ DefaultSearch /\ Len(visited) = 256
    /\ \E c \in Grid : MetricsOf(c).flight_time < 10000

\* the number of tuples of the Cartesian product of the axes
GridSize(ax) == Len(ax[1]) * Len(ax[2]) * Len(ax[3]) * Len(ax[4])

\* a finished search has evaluated every tuple of the grid exactly once
EachTupleOnce ==
    /\ \A a \in 1..4 : Len(axes[a]) \in {1, 4}
    /\ Len(visited) = GridSize(axes)
    /\ Len(visited) <= 256
    /\ Range(visited) = Grid
    /\ Cardinality(Range(visited)) = Len(visited)

\* C14 as stated, the part a finite run refutes: every finished run has
\* evaluated each tuple of the Cartesian product of the four axes exactly once
\* (at most 256 evaluations, each axis having 1 or 4 values) and has produced
\* one of the outcomes Found and Infeasible.
C14_EveryRunSearchesTheGrid ==
    pc = "done" =>
        /\ axes # <<>>
        /\ EachTupleOnce
        /\ outcome \in {"Found", "Infeasible"}

\* an upper bound of the number of steps the click handler has left: the
\* candidates not yet visited, the report, and 258 before the first step
StepsLeft ==
    IF pc = "done" THEN 0
    ELSE IF pc = "report" THEN 1
    ELSE IF pc = "loop" THEN GridSize(axes) - Len(visited) + 1
    ELSE 258

\* the handler is never stuck before its end: in the loop the four indices
\* point at a candidate, so the next iteration can run
NeverStuck ==
    /\ pc \in {"idle", "loop", "report", "done"}
    /\ pc = "loop" =>
          /\ \A a \in 1..4 : it[a] \in 1..Len(axes[a])
          /\ Len(visited) < GridSize(axes)

\* C14 as amended: every run terminates, every step of it taking at least one
\* from a bounded count of steps left and no state before the end being
\* stuck.  With at least one box checked it evaluates each tuple of the
\* Cartesian product exactly once (4 to 256 evaluations, each axis having 1
\* or 4 values), a skipped candidate does not end the loop before the last
\* tuple, and the outcome, produced once at the end, is Found or Infeasible.
\* With no box checked nothing is evaluated and the outcome is the "no
\* parameters selected" message.
C14_SearchTerminates ==
    /\ [](NeverStuck /\ StepsLeft >= 0)
    /\ [][StepsLeft' < StepsLeft]_vars
    /\ [](VisitedInLoopOrder /\ (pc # "done" <=> outcome = "none"))
    /\ []((pc = "done" /\ optimize_params # {}) =>
              /\ EachTupleOnce
              /\ GridSize(axes) >= 4
              /\ outcome \in {"Found", "Infeasible"})
    /\ []((pc = "done" /\ optimize_params = {}) =>
              (visited = <<>> /\ outcome = "NoParams"))
    /\ [][(pc = "loop" /\ ~LastIt(axes, it)) => pc' = "loop"]_vars

\* a finished search of 64 candidates in which a candidate other than the
\* last was skipped for its weight and another for its flight time
C14_Witness ==
    /\ pc = "done" /\ Len(visited) = 64
    /\ \E j, k \in 1..(Len(visited) - 1) :
          /\ MetricsOf(visited[j]).total_weight > max_weight
          /\ MetricsOf(visited[k]).flight_time < min_flight_time * 100

\* the scores of the first n visited candidates that passed both constraints
\* with twr >= 1.0 and a positive score
RetainableScores(n) ==
    {MetricsOf(visited[k]).score : k \in {j \in 1..n :
        Admissible(MetricsOf(visited[j])) /\ MetricsOf(visited[j]).score > 0}}

\* best_score is the maximum of the retainable scores, best_config holds it
BestIsMaxOfVisited ==
    LET scores == RetainableScores(Len(visited))
    IN  /\ best_config = <<>> => scores = {}
        /\ best_config # <<>> =>
              /\ best_score \in scores
              /\ \A q \in scores : q <= best_score

\* what one more visited candidate makes of the maximum
BestAfterVisit ==
    LET m == MetricsOf(visited'[Len(visited')])
    IN  best_score' = IF Admissible(m) /\ m.score > 0
                      THEN Max(best_score, m.score) ELSE best_score

\* C15: after any number of visited candidates best_score is >= 0 and has
\* never decreased; best_config is set exactly when best_score > 0; when set,
\* its stored score is best_score, the maximum score of the candidates visited
\* so far that passed both constraints with twr >= 1.0 and a score > 0 (stated
\* for every visit as a step, and directly for the first pass of the two inner
\* loops and for the finished loop); so a Found outcome has a score > 0.
C15_BestScoreLoopInvariant ==
    /\ [](/\ best_score >= 0
          /\ best_config # <<>> <=> best_score > 0
          /\ best_config # <<>> => best_config[1].score = best_score
          /\ outcome = "Found" => (best_config # <<>> /\ best_config[1].score > 0))
    /\ []((axes # <<>> /\ (pc \in {"report", "done"}
                            \/ Len(visited) <= Len(axes[3]) * Len(axes[4])))
              => BestIsMaxOfVisited)
    /\ [][/\ best_score' >= best_score
           /\ Len(visited') > Len(visited) => BestAfterVisit]_vars

\* the loop is running with a retained configuration, after an admissible
\* candidate of lower positive score and one whose score is not positive
C15_Witness ==
    /\ pc = "loop" /\ best_config # <<>>
    /\ \E j, k \in 1..Len(visited) :
          /\ Admissible(MetricsOf(visited[j]))
          /\ MetricsOf(visited[j]).score <= 0
          /\ Admissible(MetricsOf(visited[k]))
          /\ MetricsOf(visited[k]).score > 0
          /\ MetricsOf(visited[k]).score < best_score

\* the capacity axis is optimized on a template with a positive voltage
CapacityAxisEnabled ==
    pc = "done" /\ "Battery Capacity" \in optimize_params /\ cfg.battery_voltage > 0

\* the candidates of the grid paired with a larger capacity of the axis
LargerCapacityPairs ==
    {<<c, k>> \in Grid \X Range(battery_caps(cfg, optimize_params)) : c[3] < k}

WithCapacity(c, k) == <<c[1], c[2], k, c[4]>>

\* total weight, twr and power of a candidate are those of its 10000 mAh
\* variant, which passes the constraints if the candidate does
CapacityOnlyMovesFlightTime ==
    \A c \in Grid :
        LET m == MetricsOf(c)
            t == MetricsOf(WithCapacity(c, 10000))
        IN  /\ ~m.err /\ ~t.err
            /\ t.total_weight = m.total_weight
            /\ t.twr = m.twr
            /\ t.power = m.power
            /\ PassesConstraints(m, max_weight, min_flight_time)
                  => PassesConstraints(t, max_weight, min_flight_time)

\* C16 as stated: with the capacity axis optimized and a positive voltage
\* every Found outcome has capacity 10000; total weight, twr and power of a
\* candidate do not depend on the capacity; flight time and score of every
\* candidate strictly increase with the capacity, so the 10000 mAh candidate
\* passes the constraints whenever a smaller one does and scores strictly
\* higher.
C16_EveryCandidateGainsFromCapacity ==
    CapacityAxisEnabled =>
        /\ outcome = "Found" => best_config[1].battery_capacity = 10000
        /\ CapacityOnlyMovesFlightTime
        /\ \A p \in LargerCapacityPairs :
              LET m == MetricsOf(p[1])
                  t == MetricsOf(WithCapacity(p[1], p[2]))
              IN  t.flight_time > m.flight_time /\ t.score > m.score

\* C16 as amended: the same, except that flight time and score strictly
\* increase with the capacity for the candidates whose power is positive; a
\* candidate whose power is 0 (no thrust, as with a pitch not below the
\* diameter) has flight time 0 and the same score for every capacity, and
\* fails the flight time constraint for every capacity.
C16_FoundHasLargestCapacity ==
    CapacityAxisEnabled =>
        /\ outcome = "Found" => best_config[1].battery_capacity = 10000
        /\ CapacityOnlyMovesFlightTime
        /\ \A p \in LargerCapacityPairs :
              LET m == MetricsOf(p[1])
                  t == MetricsOf(WithCapacity(p[1], p[2]))
              IN  /\ m.power > 0 =>
                        (t.flight_time > m.flight_time /\ t.score > m.score)
                  /\ m.power <= 0 =>
                        /\ t.flight_time = 0 /\ m.flight_time = 0
                        /\ t.score = m.score
                        /\ ~PassesConstraints(t, max_weight, min_flight_time)

\* a Found outcome of a grid in which a smaller capacity of the retained
\* diameter, kv and motor count also passed the constraints, and in which
\* some candidate produces no thrust
C16_Witness ==
    /\ CapacityAxisEnabled /\ outcome = "Found"
    /\ \E c \in Grid :
          /\ c[3] < 10000
          /\ WithCapacity(c, 10000) = TupleOf(best_config[1])
          /\ Admissible(MetricsOf(c))
    /\ \E c \in Grid : MetricsOf(c).power = 0

(* ---------------------------------------------------------------------- *)
(* Properties of the evaluation                                            *)
(* ---------------------------------------------------------------------- *)

\* the weights and electrical values of the regression vector
RegressionVector(w) ==
    /\ w.motor_kv = 1000 /\ w.battery_voltage = 111 /\ w.num_motors = 4
    /\ w.motor_weight = 50 /\ w.battery_weight = 300 /\ w.esc_weight = 25
    /\ w.frame_weight = 200 /\ w.flight_controller_weight = 30
    /\ w.camera_weight = 100 /\ w.additional_payload = 0 /\ w.wiring_weight = 50

\* C7 as stated: for kv 1000, 11.1 V, 4 motors of 50 g, battery 300 g, ESC
\* 25 g per motor, frame 200 g, flight controller 30 g, camera 100 g, no
\* payload and wiring 50 g the evaluation gives rpm = 11100 and total weight
\* = 880 g.
C7_RegressionVector ==
    (pc = "done" /\ RegressionVector(cfg)) =>
        /\ perf.shown /\ ~perf.err
        /\ perf.rpm = 111000
        /\ perf.total_weight = 880

\* C7 as amended: for the same configuration the evaluation gives rpm = 11100
\* and total weight = 50*4 + 300 + 25*4 + 200 + 30 + 100 + 0 + 50 = 980 g.
C7_RegressionVectorAmended ==
    (pc = "done" /\ RegressionVector(cfg)) =>
        /\ perf.shown /\ ~perf.err
        /\ perf.rpm = 111000
        /\ perf.total_weight = 980

\* the regression vector was evaluated, propeller 10 x 4.5 in
C7_Witness ==
    /\ pc = "done" /\ perf.shown /\ RegressionVector(cfg)
    /\ cfg.prop_diameter = 100 /\ cfg.prop_pitch = 45

\* C9: a configuration with zero motors or zero battery voltage is evaluated
\* without a division error and shows total thrust 0, twr 0, total power 0 and
\* flight time 0.
C9_ZeroMotorsOrVoltage ==
    (pc = "done" /\ (cfg.num_motors = 0 \/ cfg.battery_voltage = 0)) =>
        /\ perf.shown /\ ~perf.err
        /\ perf.total_thrust = 0
        /\ perf.twr = 0
        /\ perf.total_power = 0
        /\ perf.flight_time = 0

\* a configuration with motors and no voltage was evaluated
C9_Witness ==
    pc = "done" /\ perf.shown /\ cfg.battery_voltage = 0 /\ cfg.num_motors > 0

\* the evaluation of the same vehicle carrying p grams of additional payload
WithPayload(p) == evaluate([cfg EXCEPT !.additional_payload = p])

\* C11: the displayed max payload is never negative, is the same whatever
\* additional payload is already entered, and when it is positive it is the
\* payload that brings the vehicle to twr = 2.0: the weight without payload
\* plus the max payload is half the total thrust, so the vehicle carrying the
\* max payload rounded down to whole grams has twr >= 2.0 and the vehicle
\* carrying one gram more has twr <= 2.0.
C11_MaxPayloadReachesTwrTwo ==
    (pc = "done" /\ perf.shown) =>
        /\ perf.max_payload >= 0
        /\ \A p \in Payloads : WithPayload(p).max_payload = perf.max_payload
        /\ perf.max_payload > 0 =>
              /\ 20 * (perf.total_weight - cfg.additional_payload) + perf.max_payload
                     = perf.total_thrust
              /\ WithPayload(perf.max_payload \div 20).total_thrust = perf.total_thrust
              /\ WithPayload(perf.max_payload \div 20).twr >= 2000
              /\ WithPayload(perf.max_payload \div 20 + 1).twr <= 2000
              /\ (perf.max_payload % 20 = 0
                     => WithPayload(perf.max_payload \div 20).twr = 2000)

\* a loaded vehicle that can lift more was evaluated
C11_Witness ==
    /\ pc = "done" /\ perf.shown
    /\ cfg.additional_payload > 0 /\ perf.max_payload > 0

\* a vehicle too heavy for twr = 2.0 was evaluated: the max payload is 0
C11_WitnessClamped ==
    /\ pc = "done" /\ perf.shown /\ perf.twr > 0 /\ perf.twr < 2000
    /\ perf.max_payload = 0

\* the TWR classes, the critical flight time class and the overheating flag
TwrAndPowerAnalysis ==
    /\ perf.twr_class \in {"infeasible", "marginal", "adequate"}
    /\ perf.flight_time_class \in {"critical", "moderate", "good"}
    /\ perf.twr_class = "infeasible" <=> perf.twr < 1000
    /\ perf.twr_class = "marginal" <=> (1000 <= perf.twr /\ perf.twr < 1500)
    /\ perf.twr_class = "adequate" <=> perf.twr >= 1500
    /\ perf.flight_time_class = "critical" <=> perf.flight_time < 5000
    /\ perf.overheating <=> perf.total_power > 50000

\* C13 as stated: every analysed result has exactly one TWR class and one
\* flight time class; twr < 1.0 is infeasible, 1.0 <= twr < 1.5 marginal,
\* twr >= 1.5 adequate; flight time < 5 is critical, 5 to 15 inclusive is
\* moderate and only a flight time strictly greater than 15 is good; the
\* overheating flag is raised exactly when power > 500.
C13_FlightTimeFifteenIsModerate ==
    (pc = "done" /\ perf.shown) =>
        /\ TwrAndPowerAnalysis
        /\ perf.flight_time_class = "moderate"
              <=> (5000 <= perf.flight_time /\ perf.flight_time <= 15000)
        /\ perf.flight_time_class = "good" <=> perf.flight_time > 15000

\* C13 as amended: the same, except that the moderate class is 5 <= flight
\* time < 15 and a flight time of 15 or more is good.
C13_FlightTimeFifteenIsGood ==
    (pc = "done" /\ perf.shown) =>
        /\ TwrAndPowerAnalysis
        /\ perf.flight_time_class = "moderate"
              <=> (5000 <= perf.flight_time /\ perf.flight_time < 15000)
        /\ perf.flight_time_class = "good" <=> perf.flight_time >= 15000

\* a result with a flight time of exactly 15 minutes, twr exactly 1.5 and
\* power exactly 500 W was analysed
C13_Witness ==
    /\ pc = "done" /\ perf.shown
    /\ perf.flight_time = 15000 /\ perf.twr = 1500 /\ perf.total_power = 50000

(* ---------------------------------------------------------------------- *)
(* Properties of the physics functions                                     *)
(* ---------------------------------------------------------------------- *)

\* C8: with every argument non-negative, zero included, each of the four
\* functions returns a value >= 0 and raises no error.
C8_TotalOnNonNegativeInputs ==
    (ret.returned /\ call.a >= 0 /\ call.b >= 0 /\ call.c >= 0 /\ call.d >= 0) =>
        (~ret.err /\ ret.val >= 0)

\* C10: calculate_flight_time returns 0 whenever the power is <= 0, for any
\* capacity and voltage, voltage 0 included, without attempting a division;
\* with positive power and voltage it returns
\* ((capacity/1000) / (power/voltage)) * 60, that is capacity*voltage*0.06/power
\* (to the 1 percent the truncations of the fixed point leave).
C10_FlightTimeGuard ==
    (ret.returned /\ call.fn = "calculate_flight_time") =>
        /\ call.b <= 0 => (~ret.err /\ ret.val = 0)
        /\ (call.b > 0 /\ call.c > 0) =>
              LET exact == MulDiv(call.a * call.c, 600, call.b)
                  diff  == IF ret.val >= exact THEN ret.val - exact ELSE exact - ret.val
              IN  ~ret.err /\ diff * 100 <= exact + 100

\* a call with no power and no voltage has returned
C10_Witness ==
    /\ ret.returned /\ call.fn = "calculate_flight_time"
    /\ call.a > 0 /\ call.b = 0 /\ call.c = 0

====
